---- MODULE Spec2Model ----
(***************************************************************************)
(* A model of makegen.py: the walk over a source tree that builds the      *)
(* CodeFile and Package objects, the recursive include resolution          *)
(* (CodeFile.findDependentFiles) and the Makefile text each Package and    *)
(* the RootPackage emit.                                                   *)
(*                                                                         *)
(* Strings are sequences of one-character strings, so that split, strip,   *)
(* count, upper and the ordering of sort keys are computed and not         *)
(* assumed.  The literal fragments the program writes into a Makefile      *)
(* ('HEADERS_', '*.o', ...) are kept as single tokens of such a sequence.  *)
(***************************************************************************)
EXTENDS Integers, Sequences, FiniteSets, TLC

\* Total number of quoted-include lines over the files of a varied project.
MaxLines == 3
\* The number of nested frames of findDependentFiles in which open() still
\* succeeds: each frame holds its file open, and past this depth open() fails
\* on the interpreter's recursion limit or on the descriptor limit,
\* whichever the environment reaches first.  It is larger than the number of
\* files of any project.
MaxDepth == 6
\* Number of invocations of the program on the same source tree.
MaxRuns == 2

VARIABLES
    project,         \* the source tree on disk: files and the lines of each
    walk,            \* the order in which os.walk yields (directory, filename)
    run,             \* number of the current invocation of main
    prev,            \* outcome of the previous invocation (<<>> when none)
    pc,              \* position in main: walk, resolve, generate, exit
    status,          \* running, done, or the exception that ended main
    i,               \* position in walk (main's nested for loops)
    j,               \* position in codeFiles (main's resolution loop)
    k,               \* position in packages (main's generation loop)
    packages,        \* main's list of Package objects
    rootPackage,     \* index of the RootPackage in packages; 0 as in main
    allPackages,     \* RootPackage.allPackages (indices into packages)
    prevPath,        \* main's prevPath: <<>> for 0, else <<path>>
    package,         \* main's variable package (index; 0 as in main)
    codeFiles,       \* main's list of CodeFile objects
    codeFilesByFilename, \* main's dict: path + filename -> CodeFile index
    dependentFiles,  \* CodeFile.dependentFiles, by CodeFile index
    hasFoundAllDependentFiles, \* CodeFile.hasFoundAllDependentFiles, by index
    opens,           \* how many times each CodeFile's text has been opened
    disk             \* the Makefiles written: path -> content

vars == <<project, walk, run, prev, pc, status, i, j, k, packages, rootPackage,
          allPackages, prevPath, package, codeFiles, codeFilesByFilename,
          dependentFiles, hasFoundAllDependentFiles, opens, disk>>

----------------------------------------------------------------------------
(* Strings *)

Range(s) == {s[n] : n \in DOMAIN s}

LowerCase == <<"a","b","c","d","e","f","g","h","i","j","k","l","m",
               "n","o","p","q","r","s","t","u","v","w","x","y","z">>
UpperCase == <<"A","B","C","D","E","F","G","H","I","J","K","L","M",
               "N","O","P","Q","R","S","T","U","V","W","X","Y","Z">>

IndexIn(c, s) == CHOOSE n \in DOMAIN s : s[n] = c

\* The code point of a character, which orders Python strings.
Ord(c) ==
    IF c \in Range(LowerCase) THEN 96 + IndexIn(c, LowerCase)
    ELSE IF c \in Range(UpperCase) THEN 64 + IndexIn(c, UpperCase)
    ELSE IF c = "." THEN 46
    ELSE IF c = "/" THEN 47
    ELSE 32

\* s < t for Python strings.
RECURSIVE StrLess(_, _)
StrLess(s, t) ==
    IF t = <<>> THEN FALSE
    ELSE IF s = <<>> THEN TRUE
    ELSE IF Ord(Head(s)) # Ord(Head(t)) THEN Ord(Head(s)) < Ord(Head(t))
    ELSE StrLess(Tail(s), Tail(t))

\* str.upper()
Upper(s) ==
    [n \in DOMAIN s |->
        IF s[n] \in Range(LowerCase) THEN UpperCase[IndexIn(s[n], LowerCase)]
        ELSE s[n]]

\* str.count(c)
Count(s, c) == Cardinality({n \in DOMAIN s : s[n] = c})

\* str.find(c): the 0-based index of the first c, or -1.
Find(s, c) ==
    IF c \in Range(s)
    THEN (CHOOSE n \in DOMAIN s : s[n] = c /\ \A m \in 1..(n - 1) : s[m] # c) - 1
    ELSE -1

\* str.split(c): the pieces between the occurrences of c.
RECURSIVE Split(_, _)
Split(s, c) ==
    IF Find(s, c) < 0 THEN <<s>>
    ELSE <<SubSeq(s, 1, Find(s, c))>>
         \o Split(SubSeq(s, Find(s, c) + 2, Len(s)), c)

Whitespace == {" ", "\n", "\t"}

\* str.strip()
RECURSIVE LStrip(_)
LStrip(s) ==
    IF s # <<>> /\ Head(s) \in Whitespace THEN LStrip(Tail(s)) ELSE s
RECURSIVE RStrip(_)
RStrip(s) ==
    IF s # <<>> /\ s[Len(s)] \in Whitespace
    THEN RStrip(SubSeq(s, 1, Len(s) - 1)) ELSE s
Strip(s) == RStrip(LStrip(s))

StartsWith(s, p) == Len(s) >= Len(p) /\ SubSeq(s, 1, Len(p)) = p
EndsWith(s, p) ==
    Len(s) >= Len(p) /\ SubSeq(s, Len(s) - Len(p) + 1, Len(s)) = p

\* The concatenation of the sequences of a sequence.
RECURSIVE Flatten(_)
Flatten(ss) == IF ss = <<>> THEN <<>> ELSE Head(ss) \o Flatten(Tail(ss))

\* sorted(..., key=...) on a sequence of [key, val] pairs: ascending by key,
\* stable (an insertion sort that keeps equal keys in their order).
RECURSIVE InsertPair(_, _)
InsertPair(p, s) ==
    IF s = <<>> THEN <<p>>
    ELSE IF StrLess(p.key, Head(s).key) THEN <<p>> \o s
    ELSE <<Head(s)>> \o InsertPair(p, Tail(s))
RECURSIVE SortPairs(_)
SortPairs(s) ==
    IF s = <<>> THEN <<>>
    ELSE InsertPair(s[Len(s)], SortPairs(SubSeq(s, 1, Len(s) - 1)))

\* All orders of a finite set.
RECURSIVE Perms(_)
Perms(S) ==
    IF S = {} THEN {<<>>}
    ELSE UNION {{<<x>> \o p : p \in Perms(S \ {x})} : x \in S}

\* All sequences of length n over S.
RECURSIVE SeqsOfLen(_, _)
SeqsOfLen(S, n) ==
    IF n = 0 THEN {<<>>}
    ELSE UNION {{<<x>> \o s : s \in SeqsOfLen(S, n - 1)} : x \in S}

----------------------------------------------------------------------------
(* The source trees the program is run on *)

\* Directories, as os.walk names them after the root prefix is cut off.
DirRoot == <<>>
DirA == <<"a">>
DirAC == <<"a", "/", "c">>
DirB == <<"b">>

\* os.walk is top-down: the root first, each directory before its
\* subdirectories, sibling directories in either order.
DirOrders == {<<DirRoot, DirA, DirAC, DirB>>, <<DirRoot, DirB, DirA, DirAC>>}

File(d, n) == [dir |-> d, name |-> n]

MCpp == <<"m", ".", "c", "p", "p">>
UH == <<"u", ".", "h">>
WH == <<"w", ".", "h">>
PCpp == <<"p", ".", "c", "p", "p">>
PXCpp == <<"p", ".", "x", ".", "c", "p", "p">>
QCpp == <<"q", ".", "c", "p", "p">>
NTxt == <<"n", ".", "t", "x", "t">>
XH == <<"x", ".", "h">>

\* The name by which an include directive refers to a file of the tree.
NameOf(f) == (IF f.dir = <<>> THEN <<>> ELSE f.dir \o <<"/">>) \o f.name

IsCode(f) == EndsWith(f.name, <<".", "h">>) \/ EndsWith(f.name, <<".", "c", "p", "p">>)

Quoted(t) == [kind |-> "quoted", arg |-> t]
Angle(t) == [kind |-> "angle", arg |-> t]
Plain(t) == [kind |-> "plain", arg |-> t]

\* Projects that vary the include graph: three files in the root directory,
\* every distribution of at most MaxLines quoted includes over them, each of
\* u.h, w.h or x.h (which is not a file of the tree).
GraphFiles == {File(DirRoot, MCpp), File(DirRoot, UH), File(DirRoot, WH)}
GraphTargets == {UH, WH, XH}
GraphShapes ==
    {s \in [GraphFiles -> 0..MaxLines] :
        s[File(DirRoot, MCpp)] + s[File(DirRoot, UH)] + s[File(DirRoot, WH)] <= MaxLines}
GraphProjects ==
    UNION {
        {[files |-> GraphFiles,
          lines |-> [f \in GraphFiles |->
                        IF f.name = MCpp THEN a ELSE IF f.name = UH THEN b ELSE c]] :
            a \in {[n \in DOMAIN q |-> Quoted(q[n])] :
                        q \in SeqsOfLen(GraphTargets, s[File(DirRoot, MCpp)])},
            b \in {[n \in DOMAIN q |-> Quoted(q[n])] :
                        q \in SeqsOfLen(GraphTargets, s[File(DirRoot, UH)])},
            c \in {[n \in DOMAIN q |-> Quoted(q[n])] :
                        q \in SeqsOfLen(GraphTargets, s[File(DirRoot, WH)])}} :
        s \in GraphShapes}

\* Projects that vary the directory tree: any subset of these files, each
\* with a fixed text.
TreeCandidates ==
    {File(DirRoot, MCpp), File(DirRoot, UH),
     File(DirA, PCpp), File(DirA, PXCpp),
     File(DirAC, WH), File(DirAC, QCpp),
     File(DirB, NTxt)}
TreeLines(f) ==
    IF f = File(DirRoot, MCpp)
        THEN <<Angle(<<"v">>), Plain(<<"i", "n", "t", " ", "x", ";">>), Quoted(UH)>>
    ELSE IF f = File(DirRoot, UH) THEN <<Quoted(NameOf(File(DirAC, WH)))>>
    ELSE IF f = File(DirA, PCpp) THEN <<Quoted(NameOf(File(DirAC, WH))), Quoted(UH)>>
    ELSE IF f = File(DirAC, QCpp) THEN <<Quoted(NameOf(File(DirAC, WH)))>>
    ELSE <<>>
TreeProjects ==
    {[files |-> F, lines |-> [f \in F |-> TreeLines(f)]] : F \in SUBSET TreeCandidates}

Projects == GraphProjects \cup TreeProjects

\* The orders in which os.walk and its filenames lists can present a tree.
FilesIn(p, d) == {f \in p.files : f.dir = d}
Walks(p) ==
    UNION {
        {w1 \o w2 \o w3 \o w4 :
            w1 \in Perms(FilesIn(p, o[1])), w2 \in Perms(FilesIn(p, o[2])),
            w3 \in Perms(FilesIn(p, o[3])), w4 \in Perms(FilesIn(p, o[4]))} :
        o \in DirOrders}

----------------------------------------------------------------------------
(* Reading a file: open() yields its lines *)

IncludeWord == <<"#", "i", "n", "c", "l", "u", "d", "e">>

RenderLine(l) ==
    IF l.kind = "quoted" THEN IncludeWord \o <<" ", "\"">> \o l.arg \o <<"\"", "\n">>
    ELSE IF l.kind = "angle" THEN IncludeWord \o <<" ", "<">> \o l.arg \o <<">", "\n">>
    ELSE l.arg \o <<"\n">>

\* The lines of the file a CodeFile names (root + path + filename).
OpenedFile(cf) ==
    LET f == CHOOSE g \in project.files : NameOf(g) = cf.path \o cf.filename
    IN  [n \in DOMAIN project.lines[f] |-> RenderLine(project.lines[f][n])]

----------------------------------------------------------------------------
(* CodeFile *)

\* CodeFile.__init__
CodeFile(path, filename) ==
    [path |-> path, filename |-> filename, basename |-> Split(filename, ".")[1]]

\* CodeFile.getSortingKey
getSortingKey(cf) == cf.path \o cf.filename

\* The body of the scan loop for one line: the name a quoted include gives.
IncludedName(line) ==
    IF StartsWith(line, IncludeWord)
    THEN LET rest == SubSeq(line, 9, Len(line))
         IN  IF Find(rest, "\"") >= 0 THEN <<Split(Strip(rest), "\"")[2]>> ELSE <<>>
    ELSE <<>>

\* The names the scan loop looks up in codeFilesByFilename, in order.
IncludedNames(lines) == Flatten([n \in DOMAIN lines |-> IncludedName(lines[n])])

\* What open() raises once the nesting is too deep: RecursionError, or
\* OSError (too many open files) where the descriptor limit is the lower one.
LimitErrors == {"RecursionError", "OSError"}

\* The objects' fields findDependentFiles reads and writes, the exception it
\* has raised ("ok" when none), and the one open() raises at the limit.
Heap(limit) ==
    [dependentFiles |-> dependentFiles,
     hasFoundAllDependentFiles |-> hasFoundAllDependentFiles,
     opens |-> opens, err |-> "ok", limit |-> limit]

RECURSIVE findDependentFiles(_, _, _)
RECURSIVE IncludeLoop(_, _, _, _, _)

\* IncludeLoop with the update() left out: only the direct includes are added.
RECURSIVE IncludeLoopDirectOnly(_, _, _, _, _)
IncludeLoopDirectOnly(self, includedFiles, n, h, depth) ==
    IF n > Len(includedFiles) THEN h
    ELSE LET file == includedFiles[n]
             added == [h EXCEPT !.dependentFiles[self] = @ \cup {file}]
             back == findDependentFiles(file, added, depth + 1)
         IN  IF back.err # "ok" THEN back
             ELSE IncludeLoopDirectOnly(self, includedFiles, n + 1, back, depth)

\* IncludeLoop reading file.dependentFiles as it stands instead of calling
\* file.findDependentFiles.
RECURSIVE IncludeLoopNoCall(_, _, _, _, _)
IncludeLoopNoCall(self, includedFiles, n, h, depth) ==
    IF n > Len(includedFiles) THEN h
    ELSE LET file == includedFiles[n]
         IN  IncludeLoopNoCall(self, includedFiles, n + 1,
                 [h EXCEPT !.dependentFiles[self] =
                               @ \cup {file} \cup h.dependentFiles[file]],
                 depth)

\* findDependentFiles without the test of hasFoundAllDependentFiles.
findDependentFilesNoMemo(self, h, depth) ==
    IF depth > MaxDepth THEN [h EXCEPT !.err = h.limit]
    ELSE LET names == IncludedNames(OpenedFile(codeFiles[self]))
             opened == [h EXCEPT !.opens[self] = @ + 1]
         IN  IF \E n \in DOMAIN names : names[n] \notin DOMAIN codeFilesByFilename
             THEN [opened EXCEPT !.err = "KeyError"]
             ELSE LET includedFiles ==
                          [n \in DOMAIN names |-> codeFilesByFilename[names[n]]]
                      cleared == [opened EXCEPT !.dependentFiles[self] = {}]
                      done == IncludeLoop(self, includedFiles, 1, cleared, depth)
                  IN  IF done.err # "ok" THEN done
                      ELSE [done EXCEPT !.hasFoundAllDependentFiles[self] = TRUE]

\* The second loop of findDependentFiles, from its n-th included file on.
IncludeLoop(self, includedFiles, n, h, depth) ==
    IF n > Len(includedFiles) THEN h
    ELSE LET file == includedFiles[n]
             added == [h EXCEPT !.dependentFiles[self] = @ \cup {file}]
             back == findDependentFiles(file, added, depth + 1)
         IN  IF back.err # "ok" THEN back
             ELSE IncludeLoop(self, includedFiles, n + 1,
                      [back EXCEPT !.dependentFiles[self] =
                                        @ \cup back.dependentFiles[file]],
                      depth)

\* CodeFile.findDependentFiles, as the depth-th nested frame of it.  A call
\* on a resolved file returns at any depth; otherwise open() comes next, and
\* it is open() that fails when the nesting is too deep.
findDependentFiles(self, h, depth) ==
    IF h.hasFoundAllDependentFiles[self] THEN h
    ELSE IF depth > MaxDepth THEN [h EXCEPT !.err = h.limit]
    ELSE LET names == IncludedNames(OpenedFile(codeFiles[self]))
             opened == [h EXCEPT !.opens[self] = @ + 1]
         IN  IF \E n \in DOMAIN names : names[n] \notin DOMAIN codeFilesByFilename
             THEN [opened EXCEPT !.err = "KeyError"]
             ELSE LET includedFiles ==
                          [n \in DOMAIN names |-> codeFilesByFilename[names[n]]]
                      cleared == [opened EXCEPT !.dependentFiles[self] = {}]
                      done == IncludeLoop(self, includedFiles, 1, cleared, depth)
                  IN  IF done.err # "ok" THEN done
                      ELSE [done EXCEPT !.hasFoundAllDependentFiles[self] = TRUE]

----------------------------------------------------------------------------
(* Package and RootPackage *)

\* parseArguments: the output name and the -l list this model runs main with.
executableName == <<"app">>
libs == <<<<"m">>, <<"pthread">>>>

\* Package.__init__
Package(path) ==
    [class |-> "Package", path |-> path, cppFiles |-> <<>>,
     pathToRoot |-> <<"./">> \o [n \in 1..Count(path, "/") |-> "../"],
     content |-> <<>>]

\* RootPackage.__init__
RootPackage(path) == [Package(path) EXCEPT !.class = "RootPackage"]

\* Package.addCppFile
addCppFile(pkg, codeFile) == [pkg EXCEPT !.cppFiles = Append(@, codeFile)]

\* setAllPackages keeping the order of discovery.
setAllPackagesUnsorted(pkgs) == [n \in DOMAIN pkgs |-> n]

\* RootPackage.setAllPackages: the packages (by index) sorted by path.
setAllPackages(pkgs) ==
    LET sorted == SortPairs([n \in DOMAIN pkgs |-> [key |-> pkgs[n].path, val |-> n]])
    IN  [n \in DOMAIN sorted |-> sorted[n].val]

\* The entries of a Makefile: a variable with its values, a rule with its
\* prerequisites, a recipe line with its words.
Var(name, values) == [t |-> "var", name |-> name, args |-> values]
Rule(target, prerequisites) == [t |-> "rule", name |-> target, args |-> prerequisites]
Cmd(words) == [t |-> "cmd", name |-> <<>>, args |-> words]

DotO == <<".", "o">>
DotCpp == <<".", "c", "p", "p">>
DotH == <<".", "h">>

RECURSIVE SetToSeq(_)
SetToSeq(S) ==
    IF S = {} THEN <<>>
    ELSE LET x == CHOOSE y \in S : TRUE IN <<x>> \o SetToSeq(S \ {x})

\* sorted(codeFile.dependentFiles, key=getSortingKey)
SortedDependentFiles(cf) ==
    LET s == SetToSeq(dependentFiles[cf])
        sorted == SortPairs([n \in DOMAIN s |->
                      [key |-> getSortingKey(codeFiles[s[n]]), val |-> s[n]]])
    IN  [n \in DOMAIN sorted |-> sorted[n].val]

\* Package.printVariables
printVariables(pkg) ==
    <<Var(<<"INC">>, <<<<"-I">>, pkg.pathToRoot>>)>>
    \o [n \in DOMAIN pkg.cppFiles |->
          Var(<<"HEADERS_">> \o Upper(codeFiles[pkg.cppFiles[n]].basename),
              LET deps == SortedDependentFiles(pkg.cppFiles[n])
              IN  [m \in DOMAIN deps |->
                      pkg.pathToRoot \o codeFiles[deps[m]].path
                                     \o codeFiles[deps[m]].filename])]

\* Package.printTargetAll
printTargetAll(pkg) ==
    <<Rule(<<"all">>, <<>>)>>
    \o [n \in DOMAIN pkg.cppFiles |->
          Cmd(<<<<"make">>, codeFiles[pkg.cppFiles[n]].basename \o DotO>>)]

\* Package.printTargetExecutable
printTargetExecutable(pkg) == <<>>

\* Package.printTargetObjectFiles
printTargetObjectFiles(pkg) ==
    Flatten([n \in DOMAIN pkg.cppFiles |->
        LET basename == codeFiles[pkg.cppFiles[n]].basename
        IN  <<Rule(basename \o DotO,
                   <<basename \o DotCpp,
                     <<"$(HEADERS_">> \o Upper(basename) \o <<")">>>>),
              Cmd(<<<<"$(CXX)">>, <<"$(CPPFLAGS)">>, <<"$(CXXFLAGS)">>, <<"-c">>,
                    basename \o DotCpp, <<"$(INC)">>>>)>>])

\* Package.printTargetClean
printTargetClean(pkg) == <<Rule(<<"clean">>, <<>>), Cmd(<<<<"rm">>, <<"*.o">>>>)>>

\* RootPackage.printVariables skipping the root package itself in OBJECTS, as
\* the loops of printTargetAll and printTargetClean do.
RootPrintVariablesSkipSelf(pkg) ==
    LET others == SelectSeq(allPackages, LAMBDA q : packages[q].path # pkg.path)
    IN  <<Var(<<"CXXFLAGS">>, <<<<"-std=c++11">>>>)>>
        \o printVariables(pkg)
        \o <<Var(<<"OBJECTS">>,
                 [n \in DOMAIN others |->
                     <<"./">> \o packages[others[n]].path \o <<"*.o">>]),
             Var(<<"LDLIBS">>, [n \in DOMAIN libs |-> <<"-l">> \o libs[n]])>>

\* RootPackage.printVariables
RootPrintVariables(pkg) ==
    <<Var(<<"CXXFLAGS">>, <<<<"-std=c++11">>>>)>>
    \o printVariables(pkg)
    \o <<Var(<<"OBJECTS">>,
             [n \in DOMAIN allPackages |->
                 <<"./">> \o packages[allPackages[n]].path \o <<"*.o">>]),
         Var(<<"LDLIBS">>, [n \in DOMAIN libs |-> <<"-l">> \o libs[n]])>>

\* RootPackage.printTargetAll
RootPrintTargetAll(pkg, self) ==
    LET others == SelectSeq(allPackages, LAMBDA q : q # self)
    IN  <<Rule(<<"all">>, <<>>)>>
        \o [n \in DOMAIN others |->
              Cmd(<<<<"cd">>, packages[others[n]].path, <<";">>, <<"make">>, <<"all">>>>)]
        \o [n \in DOMAIN pkg.cppFiles |->
              Cmd(<<<<"make">>, codeFiles[pkg.cppFiles[n]].basename \o DotO>>)]
        \o <<Cmd(<<<<"make">>, executableName>>)>>

\* RootPackage.printTargetExecutable
RootPrintTargetExecutable(pkg) ==
    <<Rule(executableName, <<<<"$(OBJECTS)">>>>),
      Cmd(<<<<"$(CXX)">>, <<"$(LDFLAGS)">>, <<"$(OBJECTS)">>, <<"$(LDLIBS)">>,
            <<"-o">>, executableName>>)>>

\* RootPackage.printTargetClean
RootPrintTargetClean(pkg, self) ==
    LET others == SelectSeq(allPackages, LAMBDA q : q # self)
    IN  <<Rule(<<"clean">>, <<>>)>>
        \o [n \in DOMAIN others |->
              Cmd(<<<<"cd">>, packages[others[n]].path, <<";">>, <<"make">>, <<"clean">>>>)]
        \o <<Cmd(<<<<"rm">>, <<"*.o">>, executableName>>)>>

\* The sort that opens Package.generateMakefile.
SortedCppFiles(pkg) ==
    LET sorted == SortPairs([n \in DOMAIN pkg.cppFiles |->
                      [key |-> getSortingKey(codeFiles[pkg.cppFiles[n]]),
                       val |-> pkg.cppFiles[n]]])
    IN  [n \in DOMAIN sorted |-> sorted[n].val]

\* Package.generateMakefile for the package at index self: the package with
\* its units sorted and its content built by the five print methods, those
\* of RootPackage where it overrides them.
generateMakefile(self) ==
    LET pkg == [packages[self] EXCEPT !.cppFiles = SortedCppFiles(packages[self])]
    IN  [pkg EXCEPT !.content =
            IF pkg.class = "RootPackage"
            THEN RootPrintVariables(pkg) \o RootPrintTargetAll(pkg, self)
                 \o RootPrintTargetExecutable(pkg) \o printTargetObjectFiles(pkg)
                 \o RootPrintTargetClean(pkg, self)
            ELSE printVariables(pkg) \o printTargetAll(pkg)
                 \o printTargetExecutable(pkg) \o printTargetObjectFiles(pkg)
                 \o printTargetClean(pkg)]

----------------------------------------------------------------------------
(* main *)

\* The state main starts in, for a tree and an order of discovery.
Start(p, w, r, pr) ==
    /\ project = p
    /\ walk = w
    /\ run = r
    /\ prev = pr
    /\ pc = "walk"
    /\ status = "running"
    /\ i = 1
    /\ j = 1
    /\ k = 1
    /\ packages = <<>>
    /\ rootPackage = 0
    /\ allPackages = <<>>
    /\ prevPath = <<>>
    /\ package = 0
    /\ codeFiles = <<>>
    /\ codeFilesByFilename = <<>>
    /\ dependentFiles = <<>>
    /\ hasFoundAllDependentFiles = <<>>
    /\ opens = <<>>
    /\ disk = <<>>

Init == \E p \in Projects : \E w \in Walks(p) : Start(p, w, 1, <<>>)

\* The test with prevPath forgotten: every file opens a package.
IsNewPathAlways(path) == TRUE

\* main's test for creating a new Package.
IsNewPath(path) == prevPath # <<path>>

\* One iteration of main's loop over the filenames os.walk yields.
WalkFile ==
    /\ pc = "walk"
    /\ i <= Len(walk)
    /\ LET filename == walk[i].name
           isNotInRootPackage == Len(walk[i].dir) > 0
           path == IF isNotInRootPackage THEN walk[i].dir \o <<"/">> ELSE walk[i].dir
           created == IsNewPath(path)
           pkgs == IF created
                   THEN Append(packages, IF isNotInRootPackage THEN Package(path)
                                         ELSE RootPackage(path))
                   ELSE packages
           current == IF created THEN Len(pkgs) ELSE package
           isCode == EndsWith(filename, DotH) \/ EndsWith(filename, DotCpp)
           codeFile == Len(codeFiles) + 1
       IN  /\ packages' = IF EndsWith(filename, DotCpp)
                          THEN [pkgs EXCEPT ![current] = addCppFile(@, codeFile)]
                          ELSE pkgs
           /\ rootPackage' = IF created /\ ~isNotInRootPackage THEN Len(pkgs)
                             ELSE rootPackage
           /\ package' = current
           /\ prevPath' = IF created THEN <<path>> ELSE prevPath
           /\ codeFiles' = IF isCode THEN Append(codeFiles, CodeFile(path, filename))
                           ELSE codeFiles
           /\ codeFilesByFilename' =
                  IF isCode
                  THEN [n \in DOMAIN codeFilesByFilename \cup {path \o filename} |->
                           IF n = path \o filename THEN codeFile
                           ELSE codeFilesByFilename[n]]
                  ELSE codeFilesByFilename
           /\ dependentFiles' = IF isCode THEN Append(dependentFiles, {})
                                ELSE dependentFiles
           /\ hasFoundAllDependentFiles' =
                  IF isCode THEN Append(hasFoundAllDependentFiles, FALSE)
                  ELSE hasFoundAllDependentFiles
           /\ opens' = IF isCode THEN Append(opens, 0) ELSE opens
    /\ i' = i + 1
    /\ UNCHANGED <<project, walk, run, prev, pc, status, j, k, allPackages, disk>>

\* rootPackage.setAllPackages(packages), after the walk; rootPackage is still
\* the integer 0 when no file of the root directory was seen.
SetAllPackages ==
    /\ pc = "walk"
    /\ i > Len(walk)
    /\ IF rootPackage = 0
       THEN /\ status' = "AttributeError"
            /\ pc' = "exit"
            /\ UNCHANGED allPackages
       ELSE /\ allPackages' = setAllPackages(packages)
            /\ pc' = IF codeFiles = <<>> THEN "generate" ELSE "resolve"
            /\ UNCHANGED status
    /\ UNCHANGED <<project, walk, run, prev, i, j, k, packages, rootPackage,
                   prevPath, package, codeFiles, codeFilesByFilename,
                   dependentFiles, hasFoundAllDependentFiles, opens, disk>>

\* One iteration of main's loop calling file.findDependentFiles.
Resolve ==
    /\ pc = "resolve"
    /\ j <= Len(codeFiles)
    /\ \E limit \in LimitErrors :
       LET h == findDependentFiles(j, Heap(limit), 1)
       IN  /\ dependentFiles' = h.dependentFiles
           /\ hasFoundAllDependentFiles' = h.hasFoundAllDependentFiles
           /\ opens' = h.opens
           /\ IF h.err # "ok"
              THEN /\ status' = h.err
                   /\ pc' = "exit"
                   /\ UNCHANGED j
              ELSE /\ j' = j + 1
                   /\ pc' = IF j = Len(codeFiles) THEN "generate" ELSE "resolve"
                   /\ UNCHANGED status
    /\ UNCHANGED <<project, walk, run, prev, i, k, packages, rootPackage,
                   allPackages, prevPath, package, codeFiles, codeFilesByFilename,
                   disk>>

\* One iteration of main's loop 'for package in packages', which binds
\* main's package to the k-th one and calls its generateMakefile; that also
\* writes the content to root + path + 'Makefile'.
Generate ==
    /\ pc = "generate"
    /\ k <= Len(packages)
    /\ LET pkg == generateMakefile(k)
       IN  /\ packages' = [packages EXCEPT ![k] = pkg]
           /\ disk' = [d \in DOMAIN disk \cup {pkg.path} |->
                          IF d = pkg.path THEN pkg.content ELSE disk[d]]
    /\ package' = k
    /\ k' = k + 1
    /\ pc' = IF k = Len(packages) THEN "exit" ELSE "generate"
    /\ status' = IF k = Len(packages) THEN "done" ELSE status
    /\ UNCHANGED <<project, walk, run, prev, i, j, rootPackage, allPackages,
                   prevPath, codeFiles, codeFilesByFilename,
                   dependentFiles, hasFoundAllDependentFiles, opens>>

\* The dependency sets a run ends with, by file name.
FinalSets ==
    [n \in DOMAIN codeFilesByFilename |->
        {getSortingKey(codeFiles[d]) : d \in dependentFiles[codeFilesByFilename[n]]}]

\* The program is invoked again on the same sources (a fresh checkout, whose
\* directory listings come in another order); nothing but the outcome of the
\* run before is carried over, and that only to compare.
Rerun ==
    /\ pc = "exit"
    /\ run < MaxRuns
    /\ walk' \in Walks(project) \ {walk}
    /\ run' = run + 1
    /\ prev' = <<[ok |-> status = "done", sets |-> FinalSets]>>
    /\ pc' = "walk"
    /\ status' = "running"
    /\ i' = 1
    /\ j' = 1
    /\ k' = 1
    /\ packages' = <<>>
    /\ rootPackage' = 0
    /\ allPackages' = <<>>
    /\ prevPath' = <<>>
    /\ package' = 0
    /\ codeFiles' = <<>>
    /\ codeFilesByFilename' = <<>>
    /\ dependentFiles' = <<>>
    /\ hasFoundAllDependentFiles' = <<>>
    /\ opens' = <<>>
    /\ disk' = <<>>
    /\ UNCHANGED project

Next == WalkFile \/ SetAllPackages \/ Resolve \/ Generate \/ Rerun

Spec == Init /\ [][Next]_vars

----------------------------------------------------------------------------
(* The include graph of a tree, read off the tree and not off the program *)

Code == {f \in project.files : IsCode(f)}
Table == {NameOf(f) : f \in Code}
QuotedNames(f) ==
    {project.lines[f][n].arg :
        n \in {m \in DOMAIN project.lines[f] : project.lines[f][m].kind = "quoted"}}
Includes(f) == {g \in Code : NameOf(g) \in QuotedNames(f)}

RECURSIVE Closure(_)
Closure(S) ==
    LET more == S \cup UNION {Includes(g) : g \in S}
    IN  IF more = S THEN S ELSE Closure(more)

\* The files reachable from f by one or more include hops.
Reachable(f) == Closure(Includes(f))

Acyclic == \A f \in Code : f \notin Reachable(f)
AllInTable == \A f \in Code : QuotedNames(f) \subseteq Table

\* main has called findDependentFiles on every file and every call returned.
ResolvedAll == pc = "generate" \/ (pc = "exit" /\ status = "done")

----------------------------------------------------------------------------
(* The resolver *)

\* C1: for an acyclic include graph whose targets are all in the lookup
\* table, no call of findDependentFiles fails, and once it has been called on
\* every file each file's dependentFiles is exactly the set of files
\* reachable from it by one or more include hops.
C1_TransitiveClosure ==
    (Acyclic /\ AllInTable) =>
        /\ status \notin {"KeyError"} \cup LimitErrors
        /\ ResolvedAll =>
              /\ DOMAIN FinalSets = Table
              /\ \A f \in Code : FinalSets[NameOf(f)] = {NameOf(g) : g \in Reachable(f)}

\* A includes B, B includes C, A does not include C, every file is resolved
\* and C is in A's set.
C1_Witness ==
    /\ Acyclic /\ AllInTable /\ ResolvedAll
    /\ \E a, b, c \in Code :
          /\ b \in Includes(a) /\ c \in Includes(b) /\ c \notin Includes(a)
          /\ NameOf(c) \in FinalSets[NameOf(a)]

\* C2: when the include graph has a cycle (and every target is in the lookup
\* table), findDependentFiles terminates on every file: main's resolution loop
\* is never ended by the recursion running away, whichever limit stops it.
C2_CycleSafety == (~Acyclic /\ AllInTable) => status \notin LimitErrors

\* C3: a quoted include that names no key of the lookup table does not make
\* findDependentFiles fail; it is skipped, and the file is resolved with the
\* closure of its remaining includes.
C3_MissingIncludeSkipped ==
    (Acyclic /\ ~AllInTable) =>
        /\ status # "KeyError"
        /\ ResolvedAll =>
              \A f \in Code : FinalSets[NameOf(f)] = {NameOf(g) : g \in Reachable(f)}

\* C4: two runs over the same files and include graph that discover the files
\* in different orders end alike: both complete or neither does, and when they
\* complete every file has the same dependentFiles set in both.
C4_OrderIndependence ==
    (prev # <<>> /\ pc = "exit") =>
        /\ prev[1].ok <=> status = "done"
        /\ status = "done" => FinalSets = prev[1].sets

\* A second run, over another order of discovery, has completed on a tree
\* where some file depends on another only transitively.
C4_Witness ==
    /\ prev # <<>> /\ pc = "exit" /\ status = "done" /\ prev[1].ok
    /\ \E a, c \in Code :
          /\ c \in Reachable(a) /\ c \notin Includes(a)
          /\ NameOf(c) \in FinalSets[NameOf(a)]

\* C5: once a file's hasFoundAllDependentFiles is true, no later call of
\* findDependentFiles in the run, on it or on any other file, changes its
\* dependentFiles, clears the flag or opens the file again.
C5_Memoized ==
    [][run' = run =>
          \A f \in DOMAIN codeFiles :
              hasFoundAllDependentFiles[f] =>
                  /\ dependentFiles'[f] = dependentFiles[f]
                  /\ hasFoundAllDependentFiles'[f]
                  /\ opens'[f] = opens[f]]_vars

\* main has called findDependentFiles on a file that an earlier call had
\* already resolved as an include of another file; it was opened once.
C5_Witness ==
    /\ pc = "resolve"
    /\ \E x, y \in DOMAIN codeFiles :
          /\ y < x /\ x < j
          /\ x \in dependentFiles[y]
          /\ dependentFiles[x] # {}
          /\ opens[x] = 1

----------------------------------------------------------------------------
(* Reading a written Makefile *)

RootPath == <<>>

\* The recipe of the first rule for a target: the recipe lines that follow it.
RuleAt(content, target) ==
    CHOOSE n \in DOMAIN content :
        /\ content[n].t = "rule" /\ content[n].name = target
        /\ \A m \in 1..(n - 1) : ~(content[m].t = "rule" /\ content[m].name = target)
Recipe(content, target) ==
    LET n == RuleAt(content, target)
        last == CHOOSE m \in n..Len(content) :
                    /\ \A q \in (n + 1)..m : content[q].t = "cmd"
                    /\ (m < Len(content) => content[m + 1].t # "cmd")
    IN  [q \in 1..(last - n) |-> content[n + q].args]

\* The definitions of a variable, and of the variables with a given prefix.
Definitions(content, name) ==
    SelectSeq(content, LAMBDA e : e.t = "var" /\ e.name = name)
HeaderLists(content) ==
    SelectSeq(content, LAMBDA e : e.t = "var" /\ Head(e.name) = "HEADERS_")
Rules(content, target) ==
    SelectSeq(content, LAMBDA e : e.t = "rule" /\ e.name = target)

IsCd(words, goal) ==
    Len(words) = 5 /\ words[1] = <<"cd">> /\ words[3] = <<";">>
    /\ words[4] = <<"make">> /\ words[5] = <<goal>>
CdIndexes(recipe, goal) == {n \in DOMAIN recipe : IsCd(recipe[n], goal)}

StrictlyAscending(paths) ==
    \A n \in 1..(Len(paths) - 1) : StrLess(paths[n], paths[n + 1])

\* The paths of the packages other than the root package.
OtherPaths == {packages[n].path : n \in DOMAIN packages} \ {RootPath}

\* The package whose script was written to a path.
PackageAt(path) == packages[CHOOSE n \in DOMAIN packages : packages[n].path = path]

----------------------------------------------------------------------------
(* The scripts *)

\* C6: in the root package's script, the recipes of 'all' and of 'clean' each
\* start with one invocation per package other than the root, in ascending
\* path order, and none of the root itself; in 'all' they are followed by the
\* requests for the root's own objects and then, last, by the request for the
\* executable; in 'clean' by the removal of the root's objects and the
\* executable.
C6_RootRecipes ==
    RootPath \in DOMAIN disk =>
        LET all == Recipe(disk[RootPath], <<"all">>)
            clean == Recipe(disk[RootPath], <<"clean">>)
            n == Cardinality(OtherPaths)
            units == PackageAt(RootPath).cppFiles
        IN  /\ CdIndexes(all, "all") = 1..n
            /\ CdIndexes(clean, "clean") = 1..n
            /\ {all[q][2] : q \in 1..n} = OtherPaths
            /\ {clean[q][2] : q \in 1..n} = OtherPaths
            /\ StrictlyAscending([q \in 1..n |-> all[q][2]])
            /\ StrictlyAscending([q \in 1..n |-> clean[q][2]])
            /\ Len(all) = n + Len(units) + 1
            /\ \A q \in DOMAIN units :
                  all[n + q] = <<<<"make">>, codeFiles[units[q]].basename \o DotO>>
            /\ all[Len(all)] = <<<<"make">>, executableName>>
            /\ Len(clean) = n + 1
            /\ clean[n + 1] = <<<<"rm">>, <<"*.o">>, executableName>>

\* The root script is written for a project whose other packages were
\* discovered in descending path order, and the root has a unit of its own.
C6_Witness ==
    /\ RootPath \in DOMAIN disk
    /\ PackageAt(RootPath).cppFiles # <<>>
    /\ \E a, b \in DOMAIN packages :
          /\ a < b
          /\ packages[b].path # RootPath
          /\ StrLess(packages[b].path, packages[a].path)

\* main is about to call rootPackage.setAllPackages(packages).
AtSetAllPackages == pc = "walk" /\ i > Len(walk)

\* The directories of the tree that hold a file, as main names them.
PathOf(f) == IF f.dir = <<>> THEN <<>> ELSE f.dir \o <<"/">>
Directories == {PathOf(f) : f \in project.files}

OnePackagePerDirectory ==
    /\ \A a, b \in DOMAIN packages : packages[a].path = packages[b].path => a = b
    /\ \A a \in DOMAIN packages :
          packages[a].class = "RootPackage" <=> packages[a].path = RootPath
    /\ AtSetAllPackages => {packages[a].path : a \in DOMAIN packages} = Directories

RootPackageSet ==
    /\ rootPackage \in DOMAIN packages
    /\ packages[rootPackage].class = "RootPackage"
    /\ packages[rootPackage].path = RootPath

\* C7 as stated: for every tree in which files are discovered, when
\* setAllPackages is called there is one Package per directory and
\* rootPackage is the one RootPackage of packages.
C7_AnyTree ==
    /\ OnePackagePerDirectory
    /\ (AtSetAllPackages /\ project.files # {}) => RootPackageSet

\* C7, amended: there is at most one Package per directory, only the package
\* of the empty path is a RootPackage, and for every tree whose root
\* directory holds at least one file rootPackage is that RootPackage, an
\* element of packages, when setAllPackages is called.
C7_RootHoldsAFile ==
    /\ OnePackagePerDirectory
    /\ (AtSetAllPackages /\ RootPath \in Directories) => RootPackageSet

\* setAllPackages is about to be called for a tree of three directories, one
\* of them holding two files.
C7_Witness ==
    /\ AtSetAllPackages
    /\ RootPath \in Directories
    /\ Len(packages) >= 3
    /\ Len(walk) > Len(packages)
    /\ RootPackageSet

\* The name of a file as a script in the directory of pkg refers to it.
FromPackage(pkg, cf) == pkg.pathToRoot \o cf.path \o cf.filename

\* The units of a package hold, in ascending sortKey order, the header lists
\* and compile rules the claim describes; OwnSource(cf) is what the rule of a
\* unit is to name as its source.
UnitsDescribed(path, OwnSource(_)) ==
    LET pkg == PackageAt(path)
        units == pkg.cppFiles
        lists == HeaderLists(disk[path])
    IN  /\ \A n \in 1..(Len(units) - 1) :
              StrLess(getSortingKey(codeFiles[units[n]]),
                      getSortingKey(codeFiles[units[n + 1]]))
        /\ Len(lists) = Len(units)
        /\ \A n \in DOMAIN units :
              LET cf == codeFiles[units[n]]
                  f == CHOOSE g \in Code : NameOf(g) = getSortingKey(cf)
                  values == lists[n].args
              IN  /\ {values[m] : m \in DOMAIN values} =
                         {pkg.pathToRoot \o NameOf(g) : g \in Reachable(f)}
                  /\ Len(values) = Cardinality(Reachable(f))
                  /\ \A m \in 1..(Len(values) - 1) :
                         StrLess(SubSeq(values[m], Len(pkg.pathToRoot) + 1, Len(values[m])),
                                 SubSeq(values[m + 1], Len(pkg.pathToRoot) + 1,
                                        Len(values[m + 1])))
                  /\ \E r \in DOMAIN disk[path] :
                         /\ disk[path][r].t = "rule"
                         /\ disk[path][r].args =
                                <<OwnSource(cf), <<"$(HEADERS_">> \o Tail(lists[n].name) \o <<")">>>>

\* C8: every written script defines, for each unit of its package, in
\* ascending sortKey order, one header-list variable holding the files of the
\* unit's transitive dependency set, each as pathToRoot + path + filename, in
\* ascending sortKey order (empty for a unit without local includes), and a
\* compile rule that depends on the unit's own source and on that variable.
C8_HeaderLists ==
    \A path \in DOMAIN disk : UnitsDescribed(path, LAMBDA cf : cf.filename)

\* What the scripts do hold: the same, with basename + '.cpp' as the source
\* the compile rule names.
HeaderListsOfBasename ==
    \A path \in DOMAIN disk :
        UnitsDescribed(path, LAMBDA cf : cf.basename \o DotCpp)

\* C9: the OBJECTS variable of the root script, on which the link target
\* depends, holds one wildcard entry per package: the root directory's own
\* objects first, then one entry per package other than the root in ascending
\* path order; with no other package it holds the root's entry alone.
C9_Objects ==
    RootPath \in DOMAIN disk =>
        LET defs == Definitions(disk[RootPath], <<"OBJECTS">>)
            objects == defs[1].args
            n == Cardinality(OtherPaths)
            link == Rules(disk[RootPath], executableName)
        IN  /\ Len(defs) = 1
            /\ Len(objects) = n + 1
            /\ objects[1] = <<"./", "*.o">>
            /\ {objects[q] : q \in 2..(n + 1)} =
                   {<<"./">> \o path \o <<"*.o">> : path \in OtherPaths}
            /\ StrictlyAscending([q \in 1..n |->
                   SubSeq(objects[q + 1], 2, Len(objects[q + 1]) - 1)])
            /\ (OtherPaths = {} => objects = <<<<"./", "*.o">>>>)
            /\ Len(link) = 1
            /\ link[1].args = <<<<"$(OBJECTS)">>>>
            /\ \E q \in DOMAIN Recipe(disk[RootPath], executableName) :
                   <<"$(OBJECTS)">> \in Range(Recipe(disk[RootPath], executableName)[q])

\* The root script is written for a project with two other packages,
\* discovered in descending path order.
C9_Witness ==
    /\ RootPath \in DOMAIN disk
    /\ Cardinality(OtherPaths) >= 2
    /\ \E a, b \in DOMAIN packages :
          /\ a < b
          /\ packages[b].path # RootPath
          /\ StrLess(packages[b].path, packages[a].path)

\* C10: no script is written for a package two of whose units have the same
\* base name: generation surfaces an error instead.
C10_DuplicateBaseNameSurfaced ==
    \A path \in DOMAIN disk :
        LET units == PackageAt(path).cppFiles
        IN  \A a, b \in DOMAIN units :
                codeFiles[units[a]].basename = codeFiles[units[b]].basename => a = b

====
